---- MODULE Spec2Model ----
(***************************************************************************)
(* Model of src/main.rs: the file-selection handler of InputFiles (the     *)
(* batch loop over the selected files) and the single-file conversion      *)
(* to_card, together with the AppState they write.                         *)
(*                                                                         *)
(* Rust values are modelled as follows.                                    *)
(*   String        a sequence of one-character strings                     *)
(*   Option<T>     a sequence of length at most one: <<>> is None and      *)
(*                 <<x>> is Some(x)                                        *)
(*   Result<Card>  [tag |-> "Ok", card |-> c] or [tag |-> "Err"]; a panic  *)
(*                 (unwrap on None, expect on Err, slice out of range) is  *)
(*                 [tag |-> "Panic"]                                       *)
(*   a path        the sequence of its components, leaf last               *)
(*   a file        what each stage of to_card obtains from it              *)
(***************************************************************************)
EXTENDS Integers, Sequences, FiniteSets, TLC

\* Longest list of files one selection event carries.
MaxFiles == 3

None == <<>>
Some(x) == <<x>>

Digits == {"0", "1", "2", "3", "4", "5", "6", "7", "8", "9"}

VARIABLES
    fs,         \* the files on disk: path -> what to_card reads from it
    app_state,  \* the shared Signal<AppState>
    pc,         \* position of the onchange handler
    evt,        \* kind of the selection event last delivered
    files,      \* local `files` of the running handler
    cards,      \* local `cards` of the running handler
    i,          \* index of the next file the for loop visits
    discarded   \* summary of the AppState the running handler overwrote

vars == <<fs, app_state, pc, evt, files, cards, i, discarded>>

----------------------------------------------------------------------------
\* Strings

S_20230615 == <<"2", "0", "2", "3", "0", "6", "1", "5">>
S_19991231 == <<"1", "9", "9", "9", "1", "2", "3", "1">>
S_2023 == <<"2", "0", "2", "3">>
S_2023061 == <<"2", "0", "2", "3", "0", "6", "1">>
S_202306151 == <<"2", "0", "2", "3", "0", "6", "1", "5", "1">>
S_2023s06s == <<"2", "0", "2", "3", "/", "0", "6", "/">>
S_CT == <<"C", "T">>
S_H == <<"H">>
S_P == <<"P">>
S_empty == <<>>

----------------------------------------------------------------------------
\* Paths

Normal(stem) == [kind |-> "Normal", stem |-> stem]
ParentDir == [kind |-> "ParentDir", stem |-> ""]

P_a == <<Normal("d"), Normal("a")>>
P_b == <<Normal("d"), Normal("b")>>
P_c == <<Normal("d"), Normal("c")>>
P_missing == <<Normal("d"), Normal("missing")>>
P_nopixel == <<Normal("d"), Normal("nopixel")>>
P_notag == <<Normal("d"), Normal("notag")>>
P_short == <<Normal("d"), Normal("short")>>
P_x == <<Normal("x")>>
P_up == <<Normal("d"), ParentDir>>

\* Path::file_stem: None when the path has no final normal component
\* (it is empty or ends in ".."), otherwise the leaf without its extension.
FileStem(path) ==
    IF path = <<>> THEN None
    ELSE IF path[Len(path)].kind # "Normal" THEN None
    ELSE Some(path[Len(path)].stem)

----------------------------------------------------------------------------
\* Files

File(open, pixel, png, date, modality, institution, patient) ==
    [open |-> open, pixel |-> pixel, png |-> png,
     STUDY_DATE |-> date, MODALITY |-> modality,
     INSTITUTION_NAME |-> institution, PATIENT_NAME |-> patient]

Absent == File(FALSE, None, TRUE, None, None, None, None)

\* A directory of files of mixed health, for the batches.
Directory ==
    (P_a :> File(TRUE, Some("imgA"), TRUE, Some(S_20230615), Some(S_CT), Some(S_H), Some(S_P)))
    @@ (P_b :> File(TRUE, Some("imgB"), TRUE, Some(S_19991231), Some(S_CT), Some(S_empty), Some(S_empty)))
    @@ (P_c :> File(TRUE, Some("imgC"), TRUE, Some(S_202306151), Some(S_CT), Some(S_H), Some(S_P)))
    @@ (P_missing :> Absent)
    @@ (P_nopixel :> File(TRUE, None, TRUE, Some(S_20230615), Some(S_CT), Some(S_H), Some(S_P)))
    @@ (P_notag :> File(TRUE, Some("imgN"), TRUE, Some(S_20230615), None, Some(S_H), Some(S_P)))
    @@ (P_short :> File(TRUE, Some("imgS"), TRUE, Some(S_2023), Some(S_CT), Some(S_H), Some(S_P)))

Dates == {None, Some(S_empty), Some(S_2023), Some(S_2023061), Some(S_20230615),
          Some(S_202306151), Some(S_2023s06s)}

\* Every shape a single file can have.
AnyFile ==
    {File(o, px, pg, d, m, n, p) :
        o \in BOOLEAN, px \in {None, Some("img")}, pg \in BOOLEAN, d \in Dates,
        m \in {None, Some(S_CT)},
        n \in {None, Some(S_empty), Some(S_H)},
        p \in {None, Some(S_empty), Some(S_P)}}

FileSystems ==
    {Directory} \cup {(path :> f) : path \in {P_x, P_up}, f \in AnyFile}

----------------------------------------------------------------------------
\* AppState

Card(filePath, fileName, imgSrc, studyDate, modality, institutionName, patientName) ==
    [filePath |-> filePath, fileName |-> fileName, imgSrc |-> imgSrc,
     studyDate |-> studyDate, modality |-> modality,
     institutionName |-> institutionName, patientName |-> patientName]

AppState(isError, cs) == [isError |-> isError, cards |-> cs]

\* AppState::new
AppState_new == AppState(FALSE, None)

----------------------------------------------------------------------------
\* to_card

Ok(card) == [tag |-> "Ok", card |-> card]
Err == [tag |-> "Err"]
Panic == [tag |-> "Panic"]

\* obj.element(tag)?.to_str()?: the text of the tag, None when `?` returns
\* the error.
ElementStrNonEmpty(obj, tag) ==
    IF obj[tag] = Some(S_empty) THEN None ELSE obj[tag]

ElementStr(obj, tag) == obj[tag]

\* &s[lo..hi] is in range (otherwise the slice panics).
SliceInRange(s, lo, hi) == lo <= hi /\ hi <= Len(s)

\* &s[lo..hi]
Slice(s, lo, hi) == SubSeq(s, lo + 1, hi)

\* format!("{}-{}-{}", &d[0..4], &d[4..6], &d[6..8])
FormatStudyDate(d) ==
    Slice(d, 0, 4) \o <<"-">> \o Slice(d, 4, 6) \o <<"-">> \o Slice(d, 6, 8)

\* format!("data:image/png;base64,{}", b64)
DataUrl(img) == <<"data:image/png;base64,", img>>

to_card(file_path) ==
    LET file_name == FileStem(file_path)
        obj == fs[file_path]
        tag_study_date == ElementStr(obj, "STUDY_DATE")
        modality == ElementStr(obj, "MODALITY")
        institutionName == ElementStr(obj, "INSTITUTION_NAME")
        patientName == ElementStr(obj, "PATIENT_NAME")
    IN  IF file_name = None THEN Panic
        ELSE IF ~obj.open THEN Err
        ELSE IF obj.pixel = None THEN Err
        ELSE IF ~obj.png THEN Panic
        ELSE IF tag_study_date = None THEN Err
        ELSE IF ~(/\ SliceInRange(tag_study_date[1], 0, 4)
                  /\ SliceInRange(tag_study_date[1], 4, 6)
                  /\ SliceInRange(tag_study_date[1], 6, 8)) THEN Panic
        ELSE IF modality = None THEN Err
        ELSE IF institutionName = None THEN Err
        ELSE IF patientName = None THEN Err
        ELSE Ok(Card(file_path, file_name[1], DataUrl(obj.pixel[1]),
                     FormatStudyDate(tag_study_date[1]), modality[1],
                     institutionName[1], patientName[1]))

----------------------------------------------------------------------------
\* InputFiles::onchange

RECURSIVE ListsUpTo(_, _)
ListsUpTo(S, n) ==
    IF n = 0 THEN {<<>>}
    ELSE LET shorter == ListsUpTo(S, n - 1)
         IN  shorter \cup {Append(l, p) : l \in shorter, p \in S}

\* The non-empty lists a selection event can carry.
Selections == ListsUpTo(DOMAIN fs, MaxFiles) \ {<<>>}

\* *app_state.write() = AppState::new()
ResetKeep(st) == st

Reset(st) == AppState_new

\* cards.push(card)
PushFront(v, card) == <<card>> \o v

Push(v, card) == Append(v, card)

\* app_state.write().isError = true
SetErrorOnly(st) == AppState(TRUE, None)

SetError(st) == [st EXCEPT !.isError = TRUE]

\* app_state.write().cards = Some(cards); app_state.write().isError = false
StoreCards(st, v) == [[st EXCEPT !.cards = Some(v)] EXCEPT !.isError = FALSE]

Summary(st) ==
    [records |-> IF st.cards = None THEN 0 ELSE Len(st.cards[1]),
     isError |-> st.isError]

NoSummary == [records |-> 0, isError |-> FALSE]

Init ==
    /\ fs \in FileSystems
    /\ app_state = AppState_new
    /\ pc = "idle"
    /\ evt = "none"
    /\ files = <<>>
    /\ cards = <<>>
    /\ i = 0
    /\ discarded = NoSummary

\* evt.files() is None
OnchangeNoEngine ==
    /\ pc = "idle"
    /\ evt' = "no_engine"
    /\ app_state' = SetError(app_state)
    /\ UNCHANGED <<fs, pc, files, cards, i, discarded>>

\* file_engine.files() is empty
OnchangeEmpty ==
    /\ pc = "idle"
    /\ evt' = "empty"
    /\ UNCHANGED <<fs, app_state, pc, files, cards, i, discarded>>

\* file_engine.files() is not empty: the state is reset and the loop entered
OnchangeFiles ==
    /\ pc = "idle"
    /\ \E fl \in Selections :
        /\ files' = fl
        /\ evt' = "files"
        /\ discarded' = Summary(app_state)
        /\ app_state' = Reset(app_state)
        /\ cards' = <<>>
        /\ i' = 1
        /\ pc' = "loop"
    /\ UNCHANGED fs

\* One iteration of the for loop whose to_card returns Ok(card)
FileOk ==
    /\ pc = "loop"
    /\ i <= Len(files)
    /\ to_card(files[i]).tag = "Ok"
    /\ cards' = Push(cards, to_card(files[i]).card)
    /\ i' = i + 1
    /\ UNCHANGED <<fs, app_state, pc, evt, files, discarded>>

\* One iteration of the for loop whose to_card returns Err(e)
FileErr ==
    /\ pc = "loop"
    /\ i <= Len(files)
    /\ to_card(files[i]).tag = "Err"
    /\ app_state' = SetError(app_state)
    /\ i' = i + 1
    /\ UNCHANGED <<fs, pc, evt, files, cards, discarded>>

\* One iteration of the for loop in which to_card panics. The panic unwinds
\* out of the handler's future, so the statements after the loop never run.
\* The state is left as the loop had it, and the model delivers no further
\* event after a panic.
FilePanic ==
    /\ pc = "loop"
    /\ i <= Len(files)
    /\ to_card(files[i]).tag = "Panic"
    /\ pc' = "panicked"
    /\ UNCHANGED <<fs, app_state, evt, files, cards, i, discarded>>

\* The two writes after the loop
Store ==
    /\ pc = "loop"
    /\ i > Len(files)
    /\ app_state' = StoreCards(app_state, cards)
    /\ pc' = "done"
    /\ UNCHANGED <<fs, evt, files, cards, i, discarded>>

\* The handler returns and its locals are dropped
Return ==
    /\ pc = "done"
    /\ pc' = "idle"
    /\ files' = <<>>
    /\ cards' = <<>>
    /\ i' = 0
    /\ discarded' = NoSummary
    /\ UNCHANGED <<fs, app_state, evt>>

Next ==
    \/ OnchangeNoEngine
    \/ OnchangeEmpty
    \/ OnchangeFiles
    \/ FileOk
    \/ FileErr
    \/ FilePanic
    \/ Store
    \/ Return

Spec == Init /\ [][Next]_vars

TypeOK ==
    /\ pc \in {"idle", "loop", "done", "panicked"}
    /\ evt \in {"none", "no_engine", "empty", "files"}
    /\ app_state.isError \in BOOLEAN
    /\ i \in 0..(MaxFiles + 1)

----------------------------------------------------------------------------
\* Vocabulary of the properties

Converts(path) == to_card(path).tag = "Ok"
Fails(path) == to_card(path).tag = "Err"

AnyFailed(fl) == \E j \in 1..Len(fl) : Fails(fl[j])

\* The input paths that convert, in input order.
Converted(fl) == SelectSeq(fl, Converts)

\* The records of the input paths that convert, in input order.
Records(fl) == [j \in 1..Len(Converted(fl)) |-> to_card(Converted(fl)[j]).card]

\* The files the running handler has finished with, by index.
Visited ==
    IF pc \in {"loop", "done"} THEN 1..(i - 1)
    ELSE IF pc = "panicked" THEN 1..i
    ELSE {}

HasRecord(path) == \E k \in 1..Len(cards) : cards[k].filePath = path

\* Every record the program holds, local or stored.
AllRecords ==
    {cards[k] : k \in 1..Len(cards)}
    \cup (IF app_state.cards = None THEN {}
          ELSE {app_state.cards[1][k] : k \in 1..Len(app_state.cards[1])})

IsEightDigits(d) == Len(d) = 8 /\ \A k \in 1..8 : d[k] \in Digits

\* The file passes every stage of to_card that precedes the date slicing.
ReachesDate(path) ==
    /\ FileStem(path) # None
    /\ fs[path].open
    /\ fs[path].pixel # None
    /\ fs[path].png
    /\ fs[path].STUDY_DATE # None

NameTags == {"MODALITY", "INSTITUTION_NAME", "PATIENT_NAME"}

\* C1: when a batch over a non-empty list returns, isError is true iff at
\* least one of its files failed conversion.
C1_FlagIffAnyFailed ==
    pc = "done" => (app_state.isError <=> AnyFailed(files))

\* C2: the record sequence stored when a batch returns has exactly K records,
\* K the number of inputs that convert, and its k-th record's source path is
\* the k-th converting input path.
C2_RecordsFollowInputOrder ==
    pc = "done" =>
        /\ app_state.cards # None
        /\ Len(app_state.cards[1]) = Cardinality({j \in 1..Len(files) : Converts(files[j])})
        /\ Len(app_state.cards[1]) = Len(Converted(files))
        /\ \A k \in 1..Len(app_state.cards[1]) :
              app_state.cards[1][k].filePath = Converted(files)[k]

C2_Witness ==
    /\ pc = "done"
    /\ files = <<P_b, P_missing, P_a>>
    /\ Len(app_state.cards[1]) = 2
    /\ app_state.cards[1][1].filePath = P_b
    /\ app_state.cards[1][2].filePath = P_a

\* C3: within one batch, once isError is true it stays true for the rest of
\* the batch, the statements after the loop included.
C3_FlagStaysSet ==
    [][(pc = "loop" /\ app_state.isError) => app_state'.isError]_vars

\* C4: no per-file fault aborts the batch: the handler never panics, and it
\* completes having visited every file and stored the record list.
C4_NoAbort ==
    /\ pc # "panicked"
    /\ pc = "done" => (i = Len(files) + 1 /\ app_state.cards # None)

\* C5: a batch replaces the previous result: while it runs the stored state
\* is the fresh one plus the failures of this batch's files so far, and when
\* it returns the stored records are exactly the records of this batch's
\* files and the flag is the value this batch's last write gave it, whatever
\* was stored before the batch.
C5_BatchReplacesPrevious ==
    /\ pc = "loop" =>
          /\ app_state.cards = None
          /\ app_state.isError <=> AnyFailed(SubSeq(files, 1, i - 1))
    /\ pc = "done" =>
          /\ app_state.cards = Some(Records(files))
          /\ ~app_state.isError

C5_Witness ==
    /\ pc = "done"
    /\ discarded.records = 2
    /\ discarded.isError
    /\ files = <<P_missing, P_c>>
    /\ Len(app_state.cards[1]) = 1
    /\ ~app_state.isError

\* C6: a file whose study date is not exactly 8 digits is rejected as a
\* per-file error: to_card neither panics on it nor returns a record for it.
C6_MalformedDateRejected ==
    /\ pc = "panicked" =>
          ~(ReachesDate(files[i]) /\ ~IsEightDigits(fs[files[i]].STUDY_DATE[1]))
    /\ \A c \in AllRecords : IsEightDigits(fs[c.filePath].STUDY_DATE[1])

\* C7: a record made from the 8-digit date d has studyDate
\* d[0..4]-d[4..6]-d[6..8], and every record's studyDate is 10 characters,
\* digits except for '-' at positions 5 and 8.
C7_StudyDateForm ==
    \A c \in AllRecords :
        LET d == fs[c.filePath].STUDY_DATE[1]
        IN  /\ IsEightDigits(d) =>
                  c.studyDate = <<d[1], d[2], d[3], d[4], "-", d[5], d[6], "-", d[7], d[8]>>
            /\ Len(c.studyDate) = 10
            /\ \A k \in {1, 2, 3, 4, 6, 7, 9, 10} : c.studyDate[k] \in Digits
            /\ c.studyDate[5] = "-"
            /\ c.studyDate[8] = "-"

\* C8: an otherwise convertible file whose institution name or patient name
\* tag is present and empty yields a record with the empty string in that
\* field; a file in which modality, institution name or patient name is
\* absent yields no record, and an error when it is otherwise convertible.
C8_EmptyNamesAbsentTags ==
    \A j \in Visited :
        LET obj == fs[files[j]]
            convertible == ReachesDate(files[j]) /\ Len(obj.STUDY_DATE[1]) >= 8
        IN  /\ (convertible /\ \A t \in NameTags : obj[t] # None) =>
                  \E k \in 1..Len(cards) :
                      /\ cards[k].filePath = files[j]
                      /\ cards[k].modality = obj.MODALITY[1]
                      /\ cards[k].institutionName = obj.INSTITUTION_NAME[1]
                      /\ cards[k].patientName = obj.PATIENT_NAME[1]
            /\ (\E t \in NameTags : obj[t] = None) =>
                  /\ ~HasRecord(files[j])
                  /\ (convertible /\ pc = "loop") => app_state.isError
                  /\ convertible => ~(pc = "panicked" /\ j = i)

C8_Witness ==
    /\ pc = "loop"
    /\ files = <<P_b, P_notag>>
    /\ i = 3
    /\ Len(cards) = 1
    /\ cards[1].institutionName = S_empty
    /\ cards[1].patientName = S_empty
    /\ app_state.isError

\* C9: to_card yields a record for a file if and only if container parsing,
\* pixel decoding, PNG encoding and the four tag reads succeed for it.
C9_RecordIffStagesSucceed ==
    \A j \in Visited :
        LET obj == fs[files[j]]
        IN  HasRecord(files[j]) <=>
                /\ obj.open
                /\ obj.pixel # None
                /\ obj.png
                /\ obj.STUDY_DATE # None
                /\ \A t \in NameTags : obj[t] # None

\* C10 as stated: between the return of one batch and the start of the next
\* no event changes the stored records or the stored flag.
C10_NoMutationBetweenBatches ==
    [][(pc \in {"idle", "done"} /\ pc' = "idle") => app_state' = app_state]_vars

\* C10 as amended: between the return of one batch and the start of the next
\* the stored records never change; an event with an empty file list changes
\* nothing; the flag changes only by an event without file engine, which
\* sets it to true.
C10_OnlyNoEngineSetsFlag ==
    [][(pc \in {"idle", "done"} /\ pc' = "idle") =>
          /\ app_state'.cards = app_state.cards
          /\ evt' = "empty" => app_state' = app_state
          /\ evt' = "no_engine" => app_state'.isError
          /\ app_state'.isError # app_state.isError =>
                (evt' = "no_engine" /\ app_state'.isError)]_vars

C10_Witness ==
    /\ pc = "idle"
    /\ evt = "no_engine"
    /\ app_state.isError
    /\ app_state.cards # None
    /\ Len(app_state.cards[1]) = 2
====
